---- MODULE Spec2Model ----
(***************************************************************************)
(* The event vocabulary of package backtest (pkg/backtest/events.go):      *)
(* Event, Bar, Tick, Signal, Order and Fill with their accessors.          *)
(*                                                                         *)
(* One event at a time is under consideration (ev); its record carries the *)
(* promoted fields of the embedded structs.  A float64 is modelled as an   *)
(* integer count of half units (2 = 1.0), and every float64 that enters    *)
(* the model is a whole number, so that the sum of two of them halves      *)
(* exactly, as it does in binary floating point; NaN, the infinities and   *)
(* rounding of very large values are outside the model.  time.Time is an   *)
(* integer, 0 being the zero time.  A Go map is a reference: Metrics      *)
(* holds an address (0 = nil) into heap, where the content of the map      *)
(* lives as a set of <<key, value>> pairs.                                 *)
(***************************************************************************)
EXTENDS Integers, Sequences, FiniteSets, TLC

VARIABLES ev, heap, cpy, call, last, created, published, handoff

vars == <<ev, heap, cpy, call, last, created, published, handoff>>

(* ------------------------------ bounds -------------------------------- *)
MaxTime == 1
MaxQty == 1
MaxFloat == 1
MaxAddr == 3

Times == 0..MaxTime
Symbols == {"", "AAPL"}
Directions == {"", "BOT", "SLD", "bot"}
Qtys == (0 - MaxQty)..MaxQty
Floats == {2 * i : i \in (0 - MaxFloat)..MaxFloat}
OtherFloats == {0, 2 * MaxFloat}
Volumes == {0, MaxQty}
OrderTypes == {"", "limit"}
Exchanges == {"", "NYSE"}
Keys == {"sma"}
Addrs == 1..MaxAddr

(* --------------------------- the event types --------------------------- *)
ZeroEvent == [timestamp |-> 0, symbol |-> ""]

ZeroDataEvent == [Metrics |-> 0]

ZeroBar ==
  [kind |-> "Bar", timestamp |-> ZeroEvent.timestamp, symbol |-> ZeroEvent.symbol,
   Metrics |-> ZeroDataEvent.Metrics,
   Open |-> 0, High |-> 0, Low |-> 0, Close |-> 0, AdjClose |-> 0, Volume |-> 0]

ZeroTick ==
  [kind |-> "Tick", timestamp |-> ZeroEvent.timestamp, symbol |-> ZeroEvent.symbol,
   Metrics |-> ZeroDataEvent.Metrics, Bid |-> 0, Ask |-> 0]

ZeroSignal ==
  [kind |-> "Signal", timestamp |-> ZeroEvent.timestamp, symbol |-> ZeroEvent.symbol,
   direction |-> ""]

ZeroOrder ==
  [kind |-> "Order", timestamp |-> ZeroEvent.timestamp, symbol |-> ZeroEvent.symbol,
   direction |-> "", qty |-> 0, OrderType |-> "", Limit |-> 0]

ZeroFill ==
  [kind |-> "Fill", timestamp |-> ZeroEvent.timestamp, symbol |-> ZeroEvent.symbol,
   Exchange |-> "", direction |-> "", qty |-> 0,
   price |-> 0, commission |-> 0, exchangeFee |-> 0, cost |-> 0]

\* Fill's price, commission, exchangeFee and cost are unexported and have no
\* setter: only a composite literal inside the package gives them a value.
PricedFills ==
  {[ZeroFill EXCEPT !.price = p, !.cost = c, !.commission = 2, !.exchangeFee = 4] :
     p \in Floats, c \in Floats}

FillLiterals == {ZeroFill} \cup PricedFills

NewEvents == {ZeroBar, ZeroTick, ZeroSignal, ZeroOrder} \cup FillLiterals

DataKinds == {"Bar", "Tick"}

(* --------------------------- the Metrics maps -------------------------- *)
MapPut(m, k, v) == {p \in m : p[1] # k} \cup {<<k, v>>}

MapDelete(m, k) == {p \in m : p[1] # k}

\* The content seen through an event's Metrics field; a nil map reads as empty.
MetricsOf(e, h) == IF e.Metrics = 0 THEN {} ELSE h[e.Metrics]

(* ------------------------- Event (lines 25-49) ------------------------- *)
EventTime(e) == e.timestamp

EventSetTime_ClearsSymbol(e, t) == [e EXCEPT !.timestamp = t, !.symbol = ""]

EventSetTime(e, t) == [e EXCEPT !.timestamp = t]

EventSymbol(e) == e.symbol

EventSetSymbol_DropsMetrics(e, s) ==
  IF e.kind \in DataKinds
    THEN [e EXCEPT !.symbol = s, !.Metrics = 0]
    ELSE [e EXCEPT !.symbol = s]

EventSetSymbol(e, s) == [e EXCEPT !.symbol = s]

(* ------------------------------ Bar, Tick ------------------------------ *)
BarLatestPrice_Adjusted(b) == b.AdjClose

BarLatestPrice(b) == b.Close

TickLatestPrice_Precedence(t) == t.Bid + (t.Ask \div 2)

TickLatestPrice(t) == (t.Bid + t.Ask) \div 2

(* -------------------------------- Signal ------------------------------- *)
SignalDirection(s) == s.direction

SignalSetDirection(s, dir) == [s EXCEPT !.direction = dir]

(* -------------------------------- Order -------------------------------- *)
OrderDirection(o) == o.direction

OrderSetDirection(o, s) == [o EXCEPT !.direction = s]

OrderQty(o) == o.qty

OrderSetQty_RejectsNegative(o, i) == IF i < 0 THEN o ELSE [o EXCEPT !.qty = i]

OrderSetQty(o, i) == [o EXCEPT !.qty = i]

(* --------------------------------- Fill -------------------------------- *)
FillDirection(f) == f.direction

FillSetDirection_SignsQty(f, s) ==
  [f EXCEPT !.direction = s, !.qty = IF s = "SLD" THEN 0 - @ ELSE @]

FillSetDirection(f, s) == [f EXCEPT !.direction = s]

FillQty(f) == f.qty

FillSetQty(f, i) == [f EXCEPT !.qty = i]

FillPrice(f) == f.price

FillCommission(f) == f.commission

FillExchangeFee(f) == f.exchangeFee

FillCost(f) == f.cost

FillValue_Signed(f) == IF f.direction = "SLD" THEN 0 - (f.qty * f.price) ELSE f.qty * f.price

FillValue(f) == f.qty * f.price

FillNetValue_AlwaysSubtracts(f) == f.qty * f.price - f.cost

FillNetValue_StrictSld(f) ==
  IF f.direction = "BOT" THEN f.qty * f.price + f.cost
  ELSE IF f.direction = "SLD" THEN f.qty * f.price - f.cost
  ELSE f.qty * f.price

FillNetValue(f) ==
  IF f.direction = "BOT"
    THEN f.qty * f.price + f.cost
    ELSE f.qty * f.price - f.cost

(* ------------------------- bookkeeping of calls ------------------------ *)
\* call is the latest operation: its name, its argument and its result.
\* last[a] is the argument of the latest setter of attribute a, if any.
Attrs == {"Time", "Symbol", "Direction", "Qty"}

NewCall == [op |-> "new", arg |-> <<>>, ret |-> <<>>]

Init ==
  /\ ev \in NewEvents
  /\ heap = [a \in Addrs |-> {}]
  /\ cpy = <<>>
  /\ call = NewCall
  /\ last = [a \in Attrs |-> <<>>]
  /\ created = ev
  /\ published = FALSE
  /\ handoff = <<>>

\* A method with a value receiver: it works on a copy of the receiver and
\* hands back a result.
Returns(op, v) ==
  /\ call' = [op |-> op, arg |-> <<>>, ret |-> <<v>>]
  /\ UNCHANGED <<ev, heap, cpy, last, created, published, handoff>>

\* A method with a pointer receiver: it stores into the event itself.
Stores(op, attr, x, e) ==
  /\ ev' = e
  /\ call' = [op |-> op, arg |-> <<x>>, ret |-> <<>>]
  /\ last' = [last EXCEPT ![attr] = <<x>>]
  /\ UNCHANGED <<heap, cpy, created, published, handoff>>

CallEventTime == Returns("Event.Time", EventTime(ev))

CallEventSetTime == \E t \in Times : Stores("Event.SetTime", "Time", t, EventSetTime(ev, t))

CallEventSymbol == Returns("Event.Symbol", EventSymbol(ev))

CallEventSetSymbol ==
  \E s \in Symbols : Stores("Event.SetSymbol", "Symbol", s, EventSetSymbol(ev, s))

CallBarLatestPrice == ev.kind = "Bar" /\ Returns("Bar.LatestPrice", BarLatestPrice(ev))

CallTickLatestPrice == ev.kind = "Tick" /\ Returns("Tick.LatestPrice", TickLatestPrice(ev))

CallSignalDirection == ev.kind = "Signal" /\ Returns("Signal.Direction", SignalDirection(ev))

CallSignalSetDirection ==
  /\ ev.kind = "Signal"
  /\ \E dir \in Directions :
       Stores("Signal.SetDirection", "Direction", dir, SignalSetDirection(ev, dir))

CallOrderDirection == ev.kind = "Order" /\ Returns("Order.Direction", OrderDirection(ev))

CallOrderSetDirection ==
  /\ ev.kind = "Order"
  /\ \E s \in Directions :
       Stores("Order.SetDirection", "Direction", s, OrderSetDirection(ev, s))

CallOrderQty == ev.kind = "Order" /\ Returns("Order.Qty", OrderQty(ev))

CallOrderSetQty ==
  /\ ev.kind = "Order"
  /\ \E i \in Qtys : Stores("Order.SetQty", "Qty", i, OrderSetQty(ev, i))

CallFillDirection == ev.kind = "Fill" /\ Returns("Fill.Direction", FillDirection(ev))

CallFillSetDirection ==
  /\ ev.kind = "Fill"
  /\ \E s \in Directions :
       Stores("Fill.SetDirection", "Direction", s, FillSetDirection(ev, s))

CallFillQty == ev.kind = "Fill" /\ Returns("Fill.Qty", FillQty(ev))

CallFillSetQty ==
  /\ ev.kind = "Fill"
  /\ \E i \in Qtys : Stores("Fill.SetQty", "Qty", i, FillSetQty(ev, i))

CallFillPrice == ev.kind = "Fill" /\ Returns("Fill.Price", FillPrice(ev))

CallFillCommission == ev.kind = "Fill" /\ Returns("Fill.Commission", FillCommission(ev))

CallFillExchangeFee == ev.kind = "Fill" /\ Returns("Fill.ExchangeFee", FillExchangeFee(ev))

CallFillCost == ev.kind = "Fill" /\ Returns("Fill.Cost", FillCost(ev))

CallFillValue == ev.kind = "Fill" /\ Returns("Fill.Value", FillValue(ev))

CallFillNetValue == ev.kind = "Fill" /\ Returns("Fill.NetValue", FillNetValue(ev))

(* ---------------- assignments to the exported fields ------------------- *)
Assigns(e) ==
  /\ ev' = e
  /\ call' = [op |-> "assign", arg |-> <<>>, ret |-> <<>>]
  /\ UNCHANGED <<heap, cpy, last, created, published, handoff>>

AssignBar ==
  /\ ev.kind = "Bar"
  /\ \/ \E v \in OtherFloats : Assigns([ev EXCEPT !.Open = v])
     \/ \E v \in OtherFloats : Assigns([ev EXCEPT !.High = v])
     \/ \E v \in OtherFloats : Assigns([ev EXCEPT !.Low = v])
     \/ \E v \in Floats : Assigns([ev EXCEPT !.Close = v])
     \/ \E v \in OtherFloats : Assigns([ev EXCEPT !.AdjClose = v])
     \/ \E v \in Volumes : Assigns([ev EXCEPT !.Volume = v])

AssignTick ==
  /\ ev.kind = "Tick"
  /\ \/ \E v \in Floats : Assigns([ev EXCEPT !.Bid = v])
     \/ \E v \in Floats : Assigns([ev EXCEPT !.Ask = v])

AssignOrder ==
  /\ ev.kind = "Order"
  /\ \/ \E v \in OrderTypes : Assigns([ev EXCEPT !.OrderType = v])
     \/ \E v \in OtherFloats : Assigns([ev EXCEPT !.Limit = v])

AssignFill ==
  /\ ev.kind = "Fill"
  /\ \E v \in Exchanges : Assigns([ev EXCEPT !.Exchange = v])

(* ------------------- the Metrics field of a DataEvent ------------------ *)
\* An address no event refers to; the cell it names holds nothing yet.
Referenced == {ev.Metrics} \cup {cpy[i].Metrics : i \in 1..Len(cpy)}

FreeAddr == CHOOSE a \in Addrs \ Referenced : \A b \in Addrs \ Referenced : a <= b

\* Cells no event refers to any more are collected.
Collect(h, live) == [a \in Addrs |-> IF a \in live THEN h[a] ELSE {}]

\* e.Metrics = make(map[string]float64)
MetricsMake ==
  /\ ev.kind \in DataKinds
  /\ Addrs \ Referenced # {}
  /\ ev' = [ev EXCEPT !.Metrics = FreeAddr]
  /\ heap' = Collect([heap EXCEPT ![FreeAddr] = {}], (Referenced \ {ev.Metrics}) \cup
                     {FreeAddr} \cup {cpy[i].Metrics : i \in 1..Len(cpy)})
  /\ call' = [op |-> "Metrics.make", arg |-> <<>>, ret |-> <<>>]
  /\ UNCHANGED <<cpy, last, created, published, handoff>>

\* e.Metrics[k] = v; the assignment panics on a nil map, so it needs a map.
MetricsPut ==
  /\ ev.kind \in DataKinds
  /\ ev.Metrics # 0
  /\ \E k \in Keys, v \in OtherFloats :
       heap' = [heap EXCEPT ![ev.Metrics] = MapPut(@, k, v)]
  /\ call' = [op |-> "Metrics.put", arg |-> <<>>, ret |-> <<>>]
  /\ UNCHANGED <<ev, cpy, last, created, published, handoff>>

\* delete(e.Metrics, k); a no-op on a nil map.
MetricsDelete ==
  /\ ev.kind \in DataKinds
  /\ \E k \in Keys :
       heap' = IF ev.Metrics = 0 THEN heap
               ELSE [heap EXCEPT ![ev.Metrics] = MapDelete(@, k)]
  /\ call' = [op |-> "Metrics.delete", arg |-> <<>>, ret |-> <<>>]
  /\ UNCHANGED <<ev, cpy, last, created, published, handoff>>

(* ------------------------------ the core ------------------------------- *)
Methods ==
  \/ CallEventTime
  \/ CallEventSetTime
  \/ CallEventSymbol
  \/ CallEventSetSymbol
  \/ CallBarLatestPrice
  \/ CallTickLatestPrice
  \/ CallSignalDirection
  \/ CallSignalSetDirection
  \/ CallOrderDirection
  \/ CallOrderSetDirection
  \/ CallOrderQty
  \/ CallOrderSetQty
  \/ CallFillDirection
  \/ CallFillSetDirection
  \/ CallFillQty
  \/ CallFillSetQty
  \/ CallFillPrice
  \/ CallFillCommission
  \/ CallFillExchangeFee
  \/ CallFillCost
  \/ CallFillValue
  \/ CallFillNetValue

Next ==
  \/ Methods
  \/ AssignBar
  \/ AssignTick
  \/ AssignOrder
  \/ AssignFill
  \/ MetricsMake
  \/ MetricsPut
  \/ MetricsDelete

Spec == Init /\ [][Next]_vars

(* --------------------- hand-off to the next stage ---------------------- *)
\* The producing stage hands the event to a downstream collaborator.  The
\* setters have pointer receivers, so what implements EventHandler, and what
\* the collaborator receives, is the pointer to this very event.
Publish ==
  /\ ~published
  /\ published' = TRUE
  /\ handoff' = <<[timestamp |-> EventTime(ev), symbol |-> EventSymbol(ev)]>>
  /\ call' = [op |-> "publish", arg |-> <<>>, ret |-> <<>>]
  /\ UNCHANGED <<ev, heap, cpy, last, created>>

InitPipeline ==
  /\ Init
  /\ ev \in {ZeroBar, ZeroTick, ZeroSignal, ZeroOrder, ZeroFill}

\* Collaborators work through the capability sets only, never through an
\* event's fields.
NextPipeline ==
  \/ Publish
  \/ Methods

SpecPipeline == InitPipeline /\ [][NextPipeline]_vars

(* --------------------------- copies by value --------------------------- *)
\* c := e, or e passed by value: every field is copied, and the copy of the
\* Metrics field is the same reference.
Copy ==
  /\ ev.kind \in DataKinds
  /\ cpy' = <<ev>>
  /\ heap' = Collect(heap, {ev.Metrics})
  /\ call' = [op |-> "copy", arg |-> <<>>, ret |-> <<>>]
  /\ UNCHANGED <<ev, last, created, published, handoff>>

InitCopy ==
  /\ Init
  /\ ev = ZeroTick

NextCopy ==
  \/ Copy
  \/ CallEventSetTime
  \/ AssignTick
  \/ MetricsMake
  \/ MetricsPut
  \/ MetricsDelete

SpecCopy == InitCopy /\ [][NextCopy]_vars

(* ----------------------------- properties ------------------------------ *)
GetterOps ==
  {"Event.Time", "Event.Symbol", "Bar.LatestPrice", "Tick.LatestPrice",
   "Signal.Direction", "Order.Direction", "Order.Qty", "Fill.Direction", "Fill.Qty",
   "Fill.Price", "Fill.Commission", "Fill.ExchangeFee", "Fill.Cost", "Fill.Value",
   "Fill.NetValue"}

SetterOps ==
  {"Event.SetTime", "Event.SetSymbol", "Signal.SetDirection", "Order.SetDirection",
   "Order.SetQty", "Fill.SetDirection", "Fill.SetQty"}

\* C1: a call of NetValue on a Fill whose direction is exactly "BOT" returns
\* quantity times price plus cost, whatever calls led to that Fill and
\* whatever the quantity, the price and the cost are.
C1_NetValueBought ==
  (call.op = "Fill.NetValue" /\ ev.direction = "BOT")
    => call.ret = <<ev.qty * ev.price + ev.cost>>

C1_Witness ==
  /\ call.op = "Fill.NetValue"
  /\ ev.direction = "BOT"
  /\ last["Direction"] = <<"BOT">>
  /\ ev.qty < 0
  /\ ev.cost # 0
  /\ ev.price # 0

\* C2: a call of NetValue on a Fill whose direction is anything but exactly
\* "BOT" returns quantity times price minus cost, and the call is possible for
\* every direction: no direction makes it fail.
C2_NetValueFallsBackToSold ==
  ev.kind = "Fill" =>
    /\ ENABLED CallFillNetValue
    /\ (call.op = "Fill.NetValue" /\ ev.direction # "BOT")
         => call.ret = <<ev.qty * ev.price - ev.cost>>

C2_Witness ==
  /\ call.op = "Fill.NetValue"
  /\ ev.direction = "bot"
  /\ ev.qty > 0
  /\ ev.cost > 0
  /\ ev.price > 0

\* C3: Value returns quantity times price, and the direction has no part in
\* it: setting any direction on the Fill leaves the result of Value as it is.
C3_ValueIgnoresDirection ==
  ev.kind = "Fill" =>
    /\ call.op = "Fill.Value" => call.ret = <<ev.qty * ev.price>>
    /\ \A d \in Directions : FillValue(FillSetDirection(ev, d)) = ev.qty * ev.price

C3_Witness ==
  /\ call.op = "Fill.Value"
  /\ last["Direction"] = <<"SLD">>
  /\ ev.direction = "SLD"
  /\ ev.qty * ev.price # 0

\* C4: LatestPrice of a Tick returns the middle of Bid and Ask (twice the
\* result is their sum), for every quote: crossed, zero, negative or unset.
C4_TickMidpoint ==
  call.op = "Tick.LatestPrice" => 2 * call.ret[1] = ev.Bid + ev.Ask

C4_Witness ==
  /\ call.op = "Tick.LatestPrice"
  /\ ev.Bid > ev.Ask
  /\ ev.Ask < 0
  /\ call.ret[1] % 2 = 1

\* C5: LatestPrice of a Bar returns Close, and no step that leaves Close as it
\* is changes what LatestPrice gives: Open, High, Low, AdjClose, Volume,
\* Metrics, timestamp and symbol have no part in it.
C5_BarCloseOnly ==
  [][ev'.kind = "Bar" =>
       /\ call'.op = "Bar.LatestPrice" => call'.ret = <<ev'.Close>>
       /\ ev'.Close = ev.Close => BarLatestPrice(ev') = BarLatestPrice(ev)]_vars

C5_Witness ==
  /\ call.op = "Bar.LatestPrice"
  /\ ev.AdjClose # ev.Close
  /\ ev.Open # ev.Close
  /\ ev.Volume # 0
  /\ MetricsOf(ev, heap) # {}
  /\ ev.symbol # ""

\* C6: right after a setter the matching getter gives the value that was set,
\* whatever it is, and a getter returns the value of the latest set of its
\* attribute.
C6_RoundTrip ==
  /\ call.op = "Event.SetTime" => EventTime(ev) = call.arg[1]
  /\ call.op = "Event.SetSymbol" => EventSymbol(ev) = call.arg[1]
  /\ call.op = "Signal.SetDirection" => SignalDirection(ev) = call.arg[1]
  /\ call.op = "Order.SetDirection" => OrderDirection(ev) = call.arg[1]
  /\ call.op = "Order.SetQty" => OrderQty(ev) = call.arg[1]
  /\ call.op = "Fill.SetDirection" => FillDirection(ev) = call.arg[1]
  /\ call.op = "Fill.SetQty" => FillQty(ev) = call.arg[1]
  /\ (call.op = "Event.Time" /\ Len(last["Time"]) = 1) => call.ret = last["Time"]
  /\ (call.op = "Event.Symbol" /\ Len(last["Symbol"]) = 1) => call.ret = last["Symbol"]
  /\ (call.op \in {"Signal.Direction", "Order.Direction", "Fill.Direction"}
        /\ Len(last["Direction"]) = 1) => call.ret = last["Direction"]
  /\ (call.op \in {"Order.Qty", "Fill.Qty"} /\ Len(last["Qty"]) = 1)
        => call.ret = last["Qty"]

C6_Witness ==
  /\ call.op = "Order.Qty"
  /\ call.ret[1] < 0
  /\ last["Qty"] = call.ret
  /\ ev.direction = "BOT"
  /\ last["Symbol"] = <<"">>

\* C7, as the claim states it: in every state after the hand-off, timestamp
\* and symbol are what they were at the hand-off.
C7_FrozenAfterHandoff ==
  published =>
    /\ EventTime(ev) = handoff[1].timestamp
    /\ EventSymbol(ev) = handoff[1].symbol

\* C7, amended: after the hand-off the timestamp is reassigned by SetTime alone
\* and the symbol by SetSymbol alone, and these two act on a published event as
\* on any other: the attribute takes the argument.
C7_OnlySettersReassign ==
  [][(published /\ published') =>
       /\ call'.op # "Event.SetTime" => EventTime(ev') = EventTime(ev)
       /\ call'.op # "Event.SetSymbol" => EventSymbol(ev') = EventSymbol(ev)
       /\ call'.op = "Event.SetTime" => EventTime(ev') = call'.arg[1]
       /\ call'.op = "Event.SetSymbol" => EventSymbol(ev') = call'.arg[1]]_vars

C7_Witness ==
  /\ published
  /\ call.op = "Event.SetTime"
  /\ EventTime(ev) # handoff[1].timestamp
  /\ EventSymbol(ev) = handoff[1].symbol
  /\ EventSymbol(ev) # ""

\* C8: Time, SetTime, Symbol, SetSymbol and LatestPrice on a Bar or a Tick
\* leave the Metrics field and the content of every map as they are, and
\* LatestPrice gives the same result whatever map the event carries.
C8_MetricsOnlyCarried ==
  [][(ev.kind \in DataKinds /\ call'.op \in GetterOps \cup SetterOps) =>
       /\ ev'.Metrics = ev.Metrics
       /\ heap' = heap
       /\ call'.op = "Bar.LatestPrice" =>
            \A a \in 0..MaxAddr : <<BarLatestPrice([ev' EXCEPT !.Metrics = a])>> = call'.ret
       /\ call'.op = "Tick.LatestPrice" =>
            \A a \in 0..MaxAddr : <<TickLatestPrice([ev' EXCEPT !.Metrics = a])>> = call'.ret]_vars

C8_Witness ==
  /\ call.op = "Tick.LatestPrice"
  /\ MetricsOf(ev, heap) # {}
  /\ Len(last["Symbol"]) = 1
  /\ Len(last["Time"]) = 1
  /\ call.ret[1] # 0

\* What a holder of event e can observe: its fields and the content of its map.
Observed(e, h) == <<e, MetricsOf(e, h)>>

\* C9: once a copy of a Bar or Tick exists, no step on the original changes
\* what is observed through the copy, its Metrics mapping included.
C9_CopiesAreIndependent ==
  [][(Len(cpy) = 1 /\ call'.op # "copy") =>
       /\ Len(cpy') = 1
       /\ Observed(cpy'[1], heap') = Observed(cpy[1], heap)]_vars

\* C10: a setter changes its own attribute and nothing else, a getter changes
\* nothing, and so a Fill's price, commission, exchangeFee and cost stay what
\* the Fill was created with; on a zero-value Fill Value and NetValue are 0.
C10_Frame ==
  [][/\ call'.op \in GetterOps => ev' = ev
     /\ call'.op \in {"Event.SetTime"} => [ev' EXCEPT !.timestamp = ev.timestamp] = ev
     /\ call'.op \in {"Event.SetSymbol"} => [ev' EXCEPT !.symbol = ev.symbol] = ev
     /\ call'.op \in {"Signal.SetDirection", "Order.SetDirection", "Fill.SetDirection"}
          => [ev' EXCEPT !.direction = ev.direction] = ev
     /\ call'.op \in {"Order.SetQty", "Fill.SetQty"} => [ev' EXCEPT !.qty = ev.qty] = ev
     /\ call'.op \in GetterOps \cup SetterOps => heap' = heap
     /\ ev'.kind = "Fill" =>
          /\ FillPrice(ev') = created.price
          /\ FillCommission(ev') = created.commission
          /\ FillExchangeFee(ev') = created.exchangeFee
          /\ FillCost(ev') = created.cost
          /\ created = ZeroFill => (FillValue(ev') = 0 /\ FillNetValue(ev') = 0)]_vars

C10_Witness ==
  /\ call.op = "Fill.NetValue"
  /\ created = ZeroFill
  /\ ev.qty # 0
  /\ ev.direction = "BOT"
  /\ ev.timestamp # 0
  /\ ev.symbol # ""
  /\ call.ret = <<0>>

====
